---- MODULE Spec2Model ----
(***************************************************************************)
(* FoodApp-api: the recipe REST API (RecipeViewSet, TagViewSet) and the    *)
(* user API (CreateUserView, ManageUserView) as a state machine over the   *)
(* database tables.  One action is one HTTP request, handled to the end.   *)
(*                                                                         *)
(* The views are src/recipe/views.py and src/user/views.py.  The models    *)
(* (core/models.py) and the serializers (recipe/serializers.py,            *)
(* user/serializers.py) are not among the sources; the operators that      *)
(* stand for them follow the specification's data model.                   *)
(***************************************************************************)
EXTENDS Integers, Sequences, FiniteSets, TLC

\* ---------------------------------------------------------------- bounds
MaxRecipes == 2
MaxTags == 2
MaxIngredients == 1
MaxUsers == 2
MaxEmailLen == 3
MaxNames == 2

\* ---------------------------------------------------------------- domains
\* The unauthenticated requester (no valid token).
Anon == 0
Titles == {"t1", "t2"}
Links == {"", "l1"}
TagNames == {"a", "b"}
IngredientNames == {"x"}
Chars == {"a", "A", "@"}

VARIABLES users, recipes, nextRecipeId, tags, nextTagId, ingredients,
          nextIngredientId, req, response

vars == <<users, recipes, nextRecipeId, tags, nextTagId, ingredients,
          nextIngredientId, req, response>>

db == <<users, recipes, nextRecipeId, tags, nextTagId, ingredients,
        nextIngredientId>>

\* ---------------------------------------------------------------- helpers
SeqsUpTo(S, n) == UNION {[1..k -> S] : k \in 0..n}

Extend(f, k, v) == [x \in (DOMAIN f) \cup {k} |-> IF x = k THEN v ELSE f[x]]

Remove(f, k) == [x \in (DOMAIN f) \ {k} |-> f[x]]

Max(S) == CHOOSE x \in S : \A y \in S : y <= x

\* order_by('-id'): the ids of S as a sequence, largest first.
RECURSIVE OrderByIdDesc(_)
OrderByIdDesc(S) ==
    IF S = {} THEN <<>> ELSE <<Max(S)>> \o OrderByIdDesc(S \ {Max(S)})

Range(s) == {s[i] : i \in DOMAIN s}

NoData == <<>>

\* ---------------------------------------------------------------- requests
\* A request body: `has` is the set of fields present, an absent field
\* carries a fixed filler value that no handler reads.
NoPayload ==
    [has |-> {}, title |-> "t1", link |-> "", tags |-> <<>>,
     ingredients |-> <<>>, user |-> Anon]

\* The body with the fields of `has`, each with the value given for it.
Body(has, title, link, tagNames, ingredientNames, user) ==
    [has |-> has,
     title |-> IF "title" \in has THEN title ELSE NoPayload.title,
     link |-> IF "link" \in has THEN link ELSE NoPayload.link,
     tags |-> IF "tags" \in has THEN tagNames ELSE NoPayload.tags,
     ingredients |-> IF "ingredients" \in has THEN ingredientNames
                     ELSE NoPayload.ingredients,
     user |-> IF "user" \in has THEN user ELSE NoPayload.user]

\* The request bodies of the specifications: scalar fields and the 'user'
\* field in one, the tag list in another, the ingredient list in a third.
FieldPayloads ==
    {Body(h, t, l, <<>>, <<>>, w) :
        h \in SUBSET {"title", "link", "user"}, t \in Titles, l \in Links,
        w \in {1, 2}}

TagPayloads ==
    {Body(h, NoPayload.title, "", n, <<>>, Anon) :
        h \in SUBSET {"title", "tags"}, n \in SeqsUpTo(TagNames, MaxNames)}

IngredientPayloads ==
    {Body(h, NoPayload.title, "", <<>>, n, Anon) :
        h \in SUBSET {"title", "ingredients"}, n \in SeqsUpTo(IngredientNames, 1)}

\* Query parameters of a list request: the ids named by ?tags= and
\* ?ingredients= (empty when the parameter is not given).
NoParams == [tags |-> {}, ingredients |-> {}]

Params == [tags : SUBSET (1..MaxTags), ingredients : SUBSET (1..MaxIngredients)]

\* What is kept of the last request: the operation, the requester, the id
\* in the URL (of the new recipe for a create) and, once validated, the
\* body and the query; `email` is the email of a user API request.
Request(op, u, id, p, q) ==
    [op |-> op, user |-> u, id |-> id, payload |-> p, params |-> q,
     email |-> <<>>]

Response(status, data) == [status |-> status, data |-> data]

\* A request turned away by authentication, object lookup or validation:
\* nothing is stored, and no validated body or query is kept of it.
Rejected(op, u, id, status) ==
    /\ req' = Request(op, u, id, NoPayload, NoParams)
    /\ response' = Response(status, NoData)
    /\ UNCHANGED db

\* ---------------------------------------------------------------- views
\* Mutant: permission_classes = [AllowAny].
permission_allow_any(u) == TRUE

\* permission_classes = [IsAuthenticated] behind TokenAuthentication.
permission_classes(u) == u \in DOMAIN users

\* Mutant: get_queryset returns self.queryset, without the user filter.
get_queryset_all(u) == DOMAIN recipes

\* RecipeViewSet.get_queryset: the requester's recipes.
get_queryset(u) == {id \in DOMAIN recipes : recipes[id].user = u}

\* Mutant: TagViewSet.get_queryset returns self.queryset, without the user
\* filter.
tag_get_queryset_all(u) == DOMAIN tags

\* TagViewSet.get_queryset: the requester's tags.
tag_get_queryset(u) == {id \in DOMAIN tags : tags[id].user = u}

\* The serialized form of a stored recipe (RecipeDetailSerializer).
Representation(rs, id) ==
    [id |-> id, title |-> rs[id].title, link |-> rs[id].link,
     tags |-> rs[id].tags, ingredients |-> rs[id].ingredients,
     image |-> rs[id].image]

\* Mutant: Tag.objects.create for every name, whether or not the user has
\* a tag of that name.
create_always(u, name, st) ==
    [table |-> Extend(st.table, st.next, [user |-> u, name |-> name]),
     next |-> st.next + 1,
     linked |-> st.linked \cup {st.next},
     ok |-> TRUE]

\* get_or_create(user=u, name=name) and the link of the row to the recipe.
\* st = [table, next, linked, ok]; a lookup that matches more than one row
\* stops the request (MultipleObjectsReturned): ok becomes FALSE.
get_or_create(u, name, st) ==
    LET matches == {t \in DOMAIN st.table :
                      st.table[t].user = u /\ st.table[t].name = name}
    IN  IF Cardinality(matches) > 1 THEN [st EXCEPT !.ok = FALSE]
        ELSE IF matches = {}
        THEN [table |-> Extend(st.table, st.next, [user |-> u, name |-> name]),
              next |-> st.next + 1,
              linked |-> st.linked \cup {st.next},
              ok |-> TRUE]
        ELSE [st EXCEPT !.linked = st.linked \cup matches]

\* The names of the list, one after the other, until one fails.
RECURSIVE GetOrCreate(_, _, _)
GetOrCreate(u, names, st) ==
    IF names = <<>> \/ ~st.ok THEN st
    ELSE GetOrCreate(u, Tail(names), get_or_create(u, Head(names), st))

\* Mutant: serializer.save() with 'user' a writable serializer field.
perform_create_from_body(u, p, tagIds, ingIds) ==
    [user |-> IF "user" \in p.has THEN p.user ELSE u,
     title |-> p.title,
     link |-> IF "link" \in p.has THEN p.link ELSE "",
     tags |-> tagIds,
     ingredients |-> ingIds,
     image |-> ""]

\* perform_create: serializer.save(user=self.request.user).
perform_create(u, p, tagIds, ingIds) ==
    [user |-> u,
     title |-> p.title,
     link |-> IF "link" \in p.has THEN p.link ELSE "",
     tags |-> tagIds,
     ingredients |-> ingIds,
     image |-> ""]

\* The link tables a request starts from, and the outcome of a request
\* that does not touch them.
Start(table, next) == [table |-> table, next |-> next, linked |-> {}, ok |-> TRUE]

Kept(table, next, linked, ok) ==
    [table |-> table, next |-> next, linked |-> linked, ok |-> ok]

\* POST /recipes/ with body p, from an authenticated requester
create(u, p) ==
    IF "title" \notin p.has THEN Rejected("create", u, 0, 400)
    ELSE LET id == nextRecipeId
             t == GetOrCreate(u, IF "tags" \in p.has THEN p.tags ELSE <<>>,
                              Start(tags, nextTagId))
             i == IF t.ok
                  THEN GetOrCreate(u, IF "ingredients" \in p.has
                                      THEN p.ingredients ELSE <<>>,
                                   Start(ingredients, nextIngredientId))
                  ELSE Kept(ingredients, nextIngredientId, {}, FALSE)
         IN  /\ nextRecipeId <= MaxRecipes
             /\ t.next <= MaxTags + 1
             /\ i.next <= MaxIngredients + 1
             /\ req' = Request("create", u, id, p, NoParams)
             /\ recipes' = Extend(recipes, id, perform_create(u, p, t.linked, i.linked))
             /\ nextRecipeId' = nextRecipeId + 1
             /\ tags' = t.table
             /\ nextTagId' = t.next
             /\ ingredients' = i.table
             /\ nextIngredientId' = i.next
             /\ response' = IF t.ok /\ i.ok
                            THEN Response(201, Representation(recipes', id))
                            ELSE Response(500, NoData)
             /\ UNCHANGED users

\* POST /recipes/ : the body (one of P) is read once the requester is
\* authenticated.
CreateRecipe(u, P) ==
    IF ~permission_classes(u) THEN Rejected("create", u, 0, 401)
    ELSE \E p \in P : create(u, p)

\* GET /recipes/?tags=..&ingredients=..
ListRecipes(u, q) ==
    IF ~permission_classes(u) THEN Rejected("list", u, 0, 401)
    ELSE /\ req' = Request("list", u, 0, NoPayload, q)
         /\ response' = Response(200, OrderByIdDesc(get_queryset(u)))
         /\ UNCHANGED db

\* GET /recipes/{id}/
RetrieveRecipe(u, id) ==
    IF ~permission_classes(u) THEN Rejected("retrieve", u, id, 401)
    ELSE IF id \notin get_queryset(u) THEN Rejected("retrieve", u, id, 404)
    ELSE /\ req' = Request("retrieve", u, id, NoPayload, NoParams)
         /\ response' = Response(200, Representation(recipes, id))
         /\ UNCHANGED db

\* The writable fields the recipe serializer declares: 'user' is none of
\* them, so a 'user' in a body is dropped.
SerializerFields == {"title", "link", "tags", "ingredients"}

\* Mutant: the update writes every field, an absent one with its default.
UpdatedRecipe_defaults(r, p, tagIds, ingIds) ==
    [user |-> r.user,
     title |-> IF "title" \in p.has THEN p.title ELSE r.title,
     link |-> IF "link" \in p.has THEN p.link ELSE "",
     tags |-> tagIds,
     ingredients |-> ingIds,
     image |-> r.image]

\* The instance a served update saves: the declared fields that the body
\* has are written, the others stay (UpdateModelMixin, serializer.save()).
UpdatedRecipe(r, p, tagIds, ingIds) ==
    LET written == p.has \cap SerializerFields
    IN  [user |-> IF "user" \in written THEN p.user ELSE r.user,
         title |-> IF "title" \in written THEN p.title ELSE r.title,
         link |-> IF "link" \in written THEN p.link ELSE r.link,
         tags |-> tagIds,
         ingredients |-> ingIds,
         image |-> r.image]

\* Mutant: the tags of the body are added to those the recipe has.
AddTags(u, r, names) == GetOrCreate(u, names, Kept(tags, nextTagId, r.tags, TRUE))

\* A 'tags' list in an update: the links of the recipe are cleared, then
\* each name is got or created and linked.
ReplaceTags(u, r, names) == GetOrCreate(u, names, Start(tags, nextTagId))

OpName(partial) == IF partial THEN "partial_update" ELSE "update"

\* PATCH (partial = TRUE) and PUT (partial = FALSE) /recipes/{id}/ with
\* body p, on a recipe of the requester's queryset
update(u, id, p, partial) ==
    IF ~partial /\ "title" \notin p.has
    THEN Rejected(OpName(partial), u, id, 400)
    ELSE LET r == recipes[id]
             t == IF "tags" \in p.has
                  THEN ReplaceTags(u, r, p.tags)
                  ELSE Kept(tags, nextTagId, r.tags, TRUE)
             i == IF t.ok /\ "ingredients" \in p.has
                  THEN GetOrCreate(u, p.ingredients,
                                   Start(ingredients, nextIngredientId))
                  ELSE Kept(ingredients, nextIngredientId, r.ingredients, t.ok)
         IN  /\ t.next <= MaxTags + 1
             /\ i.next <= MaxIngredients + 1
             /\ req' = Request(OpName(partial), u, id, p, NoParams)
             /\ recipes' = [recipes EXCEPT ![id] =
                              IF t.ok /\ i.ok
                              THEN UpdatedRecipe(r, p, t.linked, i.linked)
                              ELSE [r EXCEPT !.tags = t.linked,
                                             !.ingredients = i.linked]]
             /\ tags' = t.table
             /\ nextTagId' = t.next
             /\ ingredients' = i.table
             /\ nextIngredientId' = i.next
             /\ response' = IF t.ok /\ i.ok
                            THEN Response(200, Representation(recipes', id))
                            ELSE Response(500, NoData)
             /\ UNCHANGED <<users, nextRecipeId>>

\* PATCH and PUT /recipes/{id}/ : the body (one of P) is read once the
\* requester is authenticated and the recipe found in the queryset.
UpdateRecipe(u, id, partial, P) ==
    IF ~permission_classes(u) THEN Rejected(OpName(partial), u, id, 401)
    ELSE IF id \notin get_queryset(u) THEN Rejected(OpName(partial), u, id, 404)
    ELSE \E p \in P : update(u, id, p, partial)

\* Mutant: the object is looked up in Recipe.objects.all().
DestroyRecipe_any(u, id) ==
    IF ~permission_classes(u) THEN Rejected("destroy", u, id, 401)
    ELSE IF id \notin DOMAIN recipes THEN Rejected("destroy", u, id, 404)
    ELSE /\ req' = Request("destroy", u, id, NoPayload, NoParams)
         /\ recipes' = Remove(recipes, id)
         /\ response' = Response(204, NoData)
         /\ UNCHANGED <<users, nextRecipeId, tags, nextTagId, ingredients,
                        nextIngredientId>>

\* DELETE /recipes/{id}/
DestroyRecipe(u, id) ==
    IF ~permission_classes(u) THEN Rejected("destroy", u, id, 401)
    ELSE IF id \notin get_queryset(u) THEN Rejected("destroy", u, id, 404)
    ELSE /\ req' = Request("destroy", u, id, NoPayload, NoParams)
         /\ recipes' = Remove(recipes, id)
         /\ response' = Response(204, NoData)
         /\ UNCHANGED <<users, nextRecipeId, tags, nextTagId, ingredients,
                        nextIngredientId>>

\* POST /recipes/{id}/upload-image/ : RecipeViewSet declares no such
\* action, the router has no route for it and the URL resolves to nothing.
UploadImage(u, id, valid) ==
    /\ req' = Request(IF valid THEN "upload_image" ELSE "upload_not_image",
                      u, id, NoPayload, NoParams)
    /\ response' = Response(404, NoData)
    /\ UNCHANGED db

\* The place of a tag name in the collation of the name column.
NameRank(name) == IF name = "a" THEN 1 ELSE 2

\* order_by('-name'): the ids of S as a sequence, the largest name first;
\* the database leaves the order of rows of one name open.
OrderByNameDesc(S) ==
    {s \in [1..Cardinality(S) -> S] :
        /\ Range(s) = S
        /\ \A i, j \in DOMAIN s :
              i < j => NameRank(tags[s[i]].name) >= NameRank(tags[s[j]].name)}

\* GET /tags/
TagList(u) ==
    IF ~permission_classes(u) THEN Rejected("tag_list", u, 0, 401)
    ELSE /\ req' = Request("tag_list", u, 0, NoPayload, NoParams)
         /\ \E s \in OrderByNameDesc(tag_get_queryset(u)) :
               response' = Response(200, s)
         /\ UNCHANGED db

\* PUT/PATCH /tags/{id}/ with a name
TagUpdate(u, id, name) ==
    IF ~permission_classes(u) THEN Rejected("tag_update", u, id, 401)
    ELSE IF id \notin tag_get_queryset(u) THEN Rejected("tag_update", u, id, 404)
    ELSE /\ req' = Request("tag_update", u, id, NoPayload, NoParams)
         /\ tags' = [tags EXCEPT ![id].name = name]
         /\ response' = Response(200, NoData)
         /\ UNCHANGED <<users, recipes, nextRecipeId, nextTagId, ingredients,
                        nextIngredientId>>

\* DELETE /tags/{id}/ : the links of the tag go with it.
TagDestroy(u, id) ==
    IF ~permission_classes(u) THEN Rejected("tag_destroy", u, id, 401)
    ELSE IF id \notin tag_get_queryset(u) THEN Rejected("tag_destroy", u, id, 404)
    ELSE /\ req' = Request("tag_destroy", u, id, NoPayload, NoParams)
         /\ tags' = Remove(tags, id)
         /\ recipes' = [r \in DOMAIN recipes |->
                          [recipes[r] EXCEPT !.tags = @ \ {id}]]
         /\ response' = Response(204, NoData)
         /\ UNCHANGED <<users, nextRecipeId, nextTagId, ingredients,
                        nextIngredientId>>

\* ---------------------------------------------------------------- emails
Lower(c) == IF c = "A" THEN "a" ELSE c

\* BaseUserManager.normalize_email: lower-case what follows the last '@'.
normalize_email(email) ==
    LET ats == {k \in DOMAIN email : email[k] = "@"}
    IN  IF ats = {} THEN email
        ELSE [k \in DOMAIN email |-> IF k > Max(ats) THEN Lower(email[k]) ELSE email[k]]

Emails == SeqsUpTo(Chars, MaxEmailLen)

\* EmailField validation: one '@' with something on both sides.
ValidEmail(email) ==
    /\ Cardinality({k \in DOMAIN email : email[k] = "@"}) = 1
    /\ email[1] # "@"
    /\ email[Len(email)] # "@"

\* The unique index on the email column: may `email` be stored for user
\* `self` (0 for a new user) beside the other rows?
UniqueEmail(email, self) ==
    \A v \in (DOMAIN users) \ {self} : users[v].email # email

\* Mutant: the email is stored as given.
RawEmail(email) == email

\* What the user manager stores for an email it is given.
StoredEmail(email) == normalize_email(email)

\* UserManager.create_user(email, password): "ValueError" for no email,
\* otherwise the row is inserted with the normalized email, or the unique
\* index refuses it ("IntegrityError").
create_user(email) ==
    IF email = <<>> THEN [exc |-> "ValueError", users |-> users]
    ELSE IF ~UniqueEmail(StoredEmail(email), 0)
    THEN [exc |-> "IntegrityError", users |-> users]
    ELSE [exc |-> "",
          users |-> Extend(users, Cardinality(DOMAIN users) + 1,
                           [email |-> StoredEmail(email)])]

recipeDb == <<recipes, nextRecipeId, tags, nextTagId, ingredients, nextIngredientId>>

UserRequest(op, u, email) ==
    [Request(op, u, 0, NoPayload, NoParams) EXCEPT !.email = email]

\* get_user_model().objects.create_user(email, password), called directly.
ManagerCreateUser(email) ==
    LET out == create_user(email)
    IN  /\ Cardinality(DOMAIN users) < MaxUsers
        /\ req' = UserRequest("create_user", Anon, email)
        /\ users' = out.users
        /\ response' = Response(0, out.exc)
        /\ UNCHANGED recipeDb

\* POST /user/create/ (CreateUserView): serializer validation, then
\* create_user.
CreateUserView(email) ==
    IF ~ValidEmail(email) \/ ~UniqueEmail(email, 0)
    THEN Rejected("user_create", Anon, 0, 400)
    ELSE LET out == create_user(email)
         IN  /\ Cardinality(DOMAIN users) < MaxUsers
             /\ req' = UserRequest("user_create", Anon, email)
             /\ users' = out.users
             /\ response' = IF out.exc = "" THEN Response(201, StoredEmail(email))
                            ELSE Response(500, NoData)
             /\ UNCHANGED recipeDb

\* ManageUserView.get_object: the authenticated user.
get_object(u) == u

\* GET /user/me/
RetrieveProfile(u) ==
    IF ~permission_classes(u) THEN Rejected("me_retrieve", u, 0, 401)
    ELSE /\ req' = UserRequest("me_retrieve", u, <<>>)
         /\ response' = Response(200, users[get_object(u)].email)
         /\ UNCHANGED db

\* PUT/PATCH /user/me/ with an email
UpdateProfile(u, email) ==
    IF ~permission_classes(u) THEN Rejected("me_update", u, 0, 401)
    ELSE IF ~ValidEmail(email) \/ ~UniqueEmail(email, get_object(u))
    THEN Rejected("me_update", u, 0, 400)
    ELSE /\ req' = UserRequest("me_update", u, email)
         /\ IF UniqueEmail(StoredEmail(email), get_object(u))
            THEN /\ users' = [users EXCEPT ![get_object(u)].email = StoredEmail(email)]
                 /\ response' = Response(200, StoredEmail(email))
            ELSE /\ users' = users
                 /\ response' = Response(500, NoData)
         /\ UNCHANGED recipeDb

Init ==
    /\ users = (1 :> [email |-> <<"a", "@", "a">>] @@ 2 :> [email |-> <<"A", "@", "a">>])
    /\ recipes = <<>>
    /\ nextRecipeId = 1
    /\ tags = <<>>
    /\ nextTagId = 1
    /\ ingredients = <<>>
    /\ nextIngredientId = 1
    /\ req = Request("none", Anon, 0, NoPayload, NoParams)
    /\ response = Response(0, NoData)

Requesters == {Anon, 1, 2}

NextOver(P) ==
    \/ \E u \in Requesters : CreateRecipe(u, P)
    \/ \E u \in Requesters, q \in Params : ListRecipes(u, q)
    \/ \E u \in Requesters, id \in 1..MaxRecipes : RetrieveRecipe(u, id)
    \/ \E u \in Requesters, id \in 1..MaxRecipes : UpdateRecipe(u, id, TRUE, P)
    \/ \E u \in Requesters, id \in 1..MaxRecipes : UpdateRecipe(u, id, FALSE, P)
    \/ \E u \in Requesters, id \in 1..MaxRecipes : DestroyRecipe(u, id)
    \/ \E u \in Requesters, id \in 1..MaxRecipes, valid \in BOOLEAN :
          UploadImage(u, id, valid)
    \/ \E u \in Requesters : TagList(u)
    \/ \E u \in Requesters, id \in 1..MaxTags, name \in TagNames : TagUpdate(u, id, name)
    \/ \E u \in Requesters, id \in 1..MaxTags : TagDestroy(u, id)

Next == NextOver(FieldPayloads)

Spec == Init /\ [][Next]_vars

NextTags == NextOver(TagPayloads)

SpecTags == Init /\ [][NextTags]_vars

NextIngredients == NextOver(IngredientPayloads)

SpecIngredients == Init /\ [][NextIngredients]_vars

\* The user API, from an empty user table.
InitUser ==
    /\ users = <<>>
    /\ recipes = <<>>
    /\ nextRecipeId = 1
    /\ tags = <<>>
    /\ nextTagId = 1
    /\ ingredients = <<>>
    /\ nextIngredientId = 1
    /\ req = Request("none", Anon, 0, NoPayload, NoParams)
    /\ response = Response(0, NoData)

NextUser ==
    \/ \E email \in Emails : ManagerCreateUser(email)
    \/ \E email \in Emails : CreateUserView(email)
    \/ \E u \in 0..MaxUsers : RetrieveProfile(u)
    \/ \E u \in 0..MaxUsers, email \in Emails : UpdateProfile(u, email)

SpecUser == InitUser /\ [][NextUser]_vars

\* ================================================================ claims

Authenticated(u) == u # Anon

\* The operations the router dispatches to RecipeViewSet and TagViewSet.
RoutedOps ==
    {"create", "list", "retrieve", "update", "partial_update", "destroy",
     "tag_list", "tag_update", "tag_destroy"}

\* C1: a recipe's owner is the authenticated user whose create request made
\* it, and no later request (PATCH, PUT, delete of another recipe, with or
\* without a 'user' field in the body) changes it.  As a step property: a
\* recipe appears only by a create of an authenticated user and is then owned
\* by that user, and a recipe that stays keeps its owner.
C1_OwnerIsCreator ==
    [][/\ \A id \in (DOMAIN recipes') \ (DOMAIN recipes) :
            /\ req'.op = "create"
            /\ Authenticated(req'.user)
            /\ recipes'[id].user = req'.user
       /\ \A id \in (DOMAIN recipes') \cap (DOMAIN recipes) :
            recipes'[id].user = recipes[id].user]_vars

\* C1 witness: an update whose body names another user as 'user' was served
\* and the recipe is still the requester's.
C1_Witness ==
    /\ req.op \in {"partial_update", "update"}
    /\ response.status = 200
    /\ "user" \in req.payload.has
    /\ req.payload.user # req.user
    /\ recipes[req.id].user = req.user

\* C2: a list request (no filter) by an authenticated user returns 200 and
\* exactly the recipes that user owns.
C2_ListLimitedToUser ==
    (req.op = "list" /\ Authenticated(req.user) /\ req.params = NoParams)
    => /\ response.status = 200
       /\ Range(response.data) = {id \in DOMAIN recipes : recipes[id].user = req.user}
       /\ Len(response.data) = Cardinality(Range(response.data))

\* C2 witness: a list was served while the requester and another user both
\* own a recipe.
C2_Witness ==
    /\ req.op = "list"
    /\ req.params = NoParams
    /\ response.status = 200
    /\ \E id \in DOMAIN recipes : recipes[id].user = req.user
    /\ \E id \in DOMAIN recipes : recipes[id].user # req.user

\* C3: a delete of recipe r by authenticated user U answers 204 and removes
\* r exactly when r exists and is U's; otherwise it answers 404, for a
\* recipe of another user as for a missing id, and every recipe is as before.
C3_DeleteOnlyOwn ==
    [][(req'.op = "destroy" /\ Authenticated(req'.user))
       => LET r == req'.id
              own == r \in DOMAIN recipes /\ recipes[r].user = req'.user
          IN  /\ (response'.status = 204) <=> own
              /\ own => recipes' = Remove(recipes, r)
              /\ ~own => response'.status = 404 /\ recipes' = recipes]_vars

\* C3 witness: a delete of another user's recipe was answered 404 and the
\* recipe is there.
C3_Witness ==
    /\ req.op = "destroy"
    /\ Authenticated(req.user)
    /\ response.status = 404
    /\ req.id \in DOMAIN recipes
    /\ recipes[req.id].user # req.user

\* C4: a request to a recipe or tag endpoint without valid authentication
\* answers 401, carries no data and leaves users, recipes, tags and
\* ingredients as they were.
C4_AuthRequired ==
    [][(req'.op \in RoutedOps /\ ~Authenticated(req'.user))
       => /\ response'.status = 401
          /\ response'.data = NoData
          /\ db' = db]_vars

\* C4 witness: an unauthenticated create was answered while recipes and
\* tags exist.
C4_Witness ==
    /\ req.op = "create"
    /\ ~Authenticated(req.user)
    /\ response.status = 401
    /\ DOMAIN recipes # {}
    /\ DOMAIN tags # {}

\* The recipes of u that a filtered list is to return: linked to at least
\* one of the listed tags, and to at least one of the listed ingredients,
\* for each of the two parameters that is given.
Filtered(u, q) ==
    {id \in DOMAIN recipes :
        /\ recipes[id].user = u
        /\ q.tags # {} => recipes[id].tags \cap q.tags # {}
        /\ q.ingredients # {} => recipes[id].ingredients \cap q.ingredients # {}}

\* C5: a list request with a 'tags' (or 'ingredients') parameter returns
\* exactly the requester's recipes linked to at least one of the listed ids.
C5_FilterByTags ==
    (req.op = "list" /\ Authenticated(req.user) /\ req.params # NoParams)
    => Range(response.data) = Filtered(req.user, req.params)

\* The tags of table `tbl` that user u has under name n.
Named(tbl, u, n) == {t \in DOMAIN tbl : tbl[t].user = u /\ tbl[t].name = n}

\* The recipe is linked to exactly one tag per name of `names`, each owned
\* by u, and to no other tag.
LinkedExactly(linked, tbl, u, names) ==
    /\ \A t \in linked : t \in DOMAIN tbl /\ tbl[t].user = u /\ tbl[t].name \in names
    /\ \A n \in names : Cardinality({t \in linked : tbl[t].name = n}) = 1

\* get-or-create, seen from outside: the rows that were there are as they
\* were, a name the user had a tag for is linked to that tag and gets no
\* second row, a name the user had no tag for gets exactly one new row.
Reconciled(linked, old, new, u, names) ==
    /\ \A t \in DOMAIN old : t \in DOMAIN new /\ new[t] = old[t]
    /\ \A t \in (DOMAIN new) \ (DOMAIN old) : new[t].user = u /\ new[t].name \in names
    /\ \A n \in names :
         IF Named(old, u, n) # {}
         THEN Named(new, u, n) = Named(old, u, n) /\ Named(old, u, n) \cap linked # {}
         ELSE Cardinality(Named(new, u, n)) = 1 /\ Named(new, u, n) \subseteq linked

C8_PatchFrame ==
    [][(req'.op = "partial_update" /\ response'.status = 200)
       => LET id == req'.id
              has == req'.payload.has
          IN  /\ recipes[id].user = req'.user
              /\ DOMAIN recipes' = DOMAIN recipes
              /\ \A o \in (DOMAIN recipes) \ {id} : recipes'[o] = recipes[o]
              /\ recipes'[id].user = recipes[id].user
              /\ recipes'[id].image = recipes[id].image
              /\ "title" \notin has => recipes'[id].title = recipes[id].title
              /\ "link" \notin has => recipes'[id].link = recipes[id].link
              /\ "tags" \notin has => recipes'[id].tags = recipes[id].tags
              /\ "ingredients" \notin has =>
                    recipes'[id].ingredients = recipes[id].ingredients]_vars

\* C8 witness: a PATCH with only a title was served on a recipe that has a
\* link, beside another recipe.
C8_Witness ==
    /\ req.op = "partial_update"
    /\ response.status = 200
    /\ req.payload.has = {"title"}
    /\ recipes[req.id].link # ""
    /\ recipes[req.id].title = req.payload.title
    /\ Cardinality(DOMAIN recipes) = 2

\* The part of an email up to its last '@', and whether what follows it
\* has no upper-case letter.
LastAt(email) == Max({0} \cup {k \in DOMAIN email : email[k] = "@"})

DomainLowered(email) ==
    \A k \in DOMAIN email : (LastAt(email) > 0 /\ k > LastAt(email)) => email[k] # "A"

\* C9 (state part): no two users have the same stored email, and a stored
\* email has its domain part in lower case.
C9_EmailsUnique ==
    /\ \A v, w \in DOMAIN users : v # w => users[v].email # users[w].email
    /\ \A v \in DOMAIN users : users[v].email # <<>> /\ DomainLowered(users[v].email)

\* C9 (step part): a new user's stored email is the given one with the local
\* part kept; creating a user with an empty email is an error and adds none.
C9_CreateStep ==
    /\ \A v \in (DOMAIN users') \ (DOMAIN users) :
         /\ req'.op \in {"create_user", "user_create"}
         /\ Len(users'[v].email) = Len(req'.email)
         /\ \A k \in 1..LastAt(req'.email) : users'[v].email[k] = req'.email[k]
    /\ (req'.op = "create_user" /\ req'.email = <<>>)
         => response'.data = "ValueError" /\ users' = users
    /\ (req'.op = "user_create" /\ req'.email = <<>>)
         => response'.status = 400 /\ users' = users

\* C9: in every state reachable by user creations and profile updates the
\* stored emails are pairwise different and normalized (domain part
\* lower-cased, local part as given), and creating a user with an empty
\* email is rejected with an error and adds no user.
C9_UniqueNormalizedEmail == []C9_EmailsUnique /\ [][C9_CreateStep]_vars

\* C9 witness: a creation was refused by the unique index because the
\* normalized email is another user's, and a creation with an upper-case
\* local part was stored as given.
C9_Witness ==
    /\ req.op = "create_user"
    /\ response.data = "IntegrityError"
    /\ req.email # <<>>
    /\ \E v \in DOMAIN users : users[v].email[1] = "A"

\* C10: an image upload for a recipe of the requester answers 400 for a
\* value that is no image, leaving the stored image, and 200 for an image,
\* after which the recipe has a stored image.
C10_UploadImage ==
    (/\ req.op \in {"upload_image", "upload_not_image"}
     /\ req.id \in DOMAIN recipes
     /\ recipes[req.id].user = req.user)
    => IF req.op = "upload_image"
       THEN response.status = 200 /\ recipes[req.id].image # ""
       ELSE response.status = 400

\* C11 (state part): every tag linked to a recipe exists and is owned by the
\* user who owns the recipe.
C11_LinkedTagsOwned ==
    \A id \in DOMAIN recipes : \A t \in recipes[id].tags :
        t \in DOMAIN tags /\ tags[t].user = recipes[id].user

\* C11 (step part): a request of user U leaves every tag of another user
\* as it was; a served tag list holds only U's tags, each once; a tag
\* update or delete aimed at another user's tag is answered 404; a tag a
\* create or update makes is U's.
C11_TagStep ==
    /\ \A t \in DOMAIN tags :
          tags[t].user # req'.user => t \in DOMAIN tags' /\ tags'[t] = tags[t]
    /\ \A t \in (DOMAIN tags') \ (DOMAIN tags) : tags'[t].user = req'.user
    /\ (req'.op = "tag_list" /\ response'.status = 200)
          => /\ Range(response'.data) = {t \in DOMAIN tags : tags[t].user = req'.user}
             /\ Len(response'.data) = Cardinality(Range(response'.data))
    /\ (/\ req'.op \in {"tag_update", "tag_destroy"}
        /\ Authenticated(req'.user)
        /\ req'.id \in DOMAIN tags
        /\ tags[req'.id].user # req'.user)
          => response'.status = 404

\* C11: in every reachable state a tag linked to a recipe is owned by the
\* recipe's owner (reconciliation on create or update by user U links only
\* U's tags, also when another user has a tag of the same name), and the
\* tag list, update and delete endpoints of U never return or change
\* another user's tag.
C11_TagOwnership == []C11_LinkedTagsOwned /\ [][C11_TagStep]_vars

\* C11 witness: a create with a tag name was served while another user has
\* a tag of that name linked to a recipe of theirs; the new recipe is
\* linked to a tag of the requester.
C11_Witness ==
    /\ req.op = "create"
    /\ response.status = 201
    /\ recipes[req.id].tags # {}
    /\ \E t \in recipes[req.id].tags, o \in DOMAIN recipes :
          /\ recipes[o].user # req.user
          /\ \E t2 \in recipes[o].tags :
                t2 # t /\ tags[t2].name = tags[t].name /\ tags[t2].user # req.user

====
